---- MODULE Spec2Model ----
(***************************************************************************)
(* State-machine model of gpt_creator_standalone.py: the retry loop of     *)
(* setup_gpt, the GPTManager browser lifecycle, and the login / locate /   *)
(* fill / save workflow.  Every Playwright call is an environment step     *)
(* that either completes or raises; is_browser_alive is an environment     *)
(* answer.  Line numbers refer to src/gpt_creator_standalone.py.           *)
(*                                                                         *)
(* Spec       the whole run of setup_gpt                                   *)
(* SpecField  one application of a value to an input element               *)
(* SpecHealth one call of is_browser_alive / ensure_browser_alive on a     *)
(*            manager in any state                                         *)
(* SpecCookies one call of save_cookies on any cookie file                 *)
(***************************************************************************)
EXTENDS Integers, Sequences, FiniteSets, TLC

\* setup_gpt: max_retries = 3 (line 915)
max_retries == 3

\* both starter loops iterate over starters[:4] (lines 515, 552)
StarterSlice == 4

\* bound: longest conversation_starters list of a configuration document
MaxStarters == 5

\* bound: most text inputs the conversation-starters section can show
MaxSlots == 4

VARIABLES
  pc,               \* position of the single thread of control
  attempt,          \* loop variable of setup_gpt (0-based)
  mgr,              \* the GPTManager created by each attempt
  config_file,      \* the configuration document on disk (input)
  config,           \* setup_gpt's local config
  existing_gpt,     \* setup_gpt's local existing_gpt
  exc,              \* exception in flight towards setup_gpt
  after,            \* what follows the finally block of this attempt
  result,           \* value returned by setup_gpt
  idx,              \* strategies tried so far for the logical action in progress
  applied,          \* strategy (by position) that resolved and applied, 0 if none yet
  unres,            \* every strategy tried so far for this action failed to resolve
  i,                \* loop index of the starter loop in progress
  obs,              \* what this attempt has done so far (observations)
  managersCreated,  \* GPTManager() calls
  browsersLaunched, \* successful chromium.launch calls
  initCalls,        \* initialize_browser calls
  playwright,       \* Playwright drivers started and not stopped
  configLoads,      \* load_config_from_json calls
  field,            \* an input element of the editor, as the page holds it
  health,           \* one call of is_browser_alive: what it finds and what it returns
  jar               \* one call of save_cookies: the cookie file and what the call does to it

vars == <<pc, attempt, mgr, config_file, config, existing_gpt, exc, after, result,
          idx, applied, unres, i, obs, managersCreated, browsersLaunched, initCalls,
          playwright, configLoads, field, health, jar>>

counters == <<managersCreated, browsersLaunched, initCalls, playwright, configLoads>>
locals   == <<config, existing_gpt>>
strat    == <<idx, applied, unres, i>>
units    == <<field, health, jar>>

\* everything of setup_gpt's run but the position of control
workflow == <<attempt, mgr, config_file, config, existing_gpt, exc, after, result,
              idx, applied, unres, i, obs, managersCreated, browsersLaunched, initCalls,
              playwright, configLoads>>

Attempts == 0 .. (max_retries - 1)

\* GPTManager.__init__: all three references None
NewManager == [created |-> TRUE, browser |-> FALSE, context |-> FALSE,
               page |-> FALSE, closes |-> 0]

NoManager == [created |-> FALSE, browser |-> FALSE, context |-> FALSE,
              page |-> FALSE, closes |-> 0]

\* a configuration document that cannot be loaded
BadConfig == [ok |-> FALSE, starters |-> 0, schema |-> "none"]

\* the configuration documents considered: missing/malformed, or loadable with
\* a conversation_starters list of the given length and an openapi_spec_file
\* that is absent ("none"), loadable ("ok") or not loadable ("bad")
Configs == {BadConfig} \cup
           [ok : {TRUE}, starters : 0 .. MaxStarters, schema : {"none", "ok", "bad"}]

\* no container scan to report
NoScan == [scanned |-> FALSE, matches |-> 0, clicks |-> 0]

\* load_cookies has not run
NoCookies == [file |-> "none", value |-> FALSE]

\* close_browser has not run
NoTeardown == [pageRaised |-> FALSE, contextTried |-> FALSE, browserTried |-> FALSE]

\* observations of one attempt, reset when the attempt starts
NewObs == [crashRaised   |-> 0,        \* line of the ensure_browser_alive that raised, 0 if none
           crashCaught   |-> FALSE,    \* a BrowserCrashedException was caught by a handler that does not re-raise it
           branch        |-> "none",   \* exit path of the attempt in setup_gpt
           slept         |-> FALSE,    \* the 3 second retry delay was executed
           exhausted     |-> FALSE,    \* some field had every strategy fail to resolve
           attempted     |-> {},       \* steps of the locate/fill/save phase attempted
           login         |-> "none",   \* what login_to_openai returned
           unchecked     |-> FALSE,    \* a page.goto was issued and no ensure_browser_alive has returned since
           loginTimedOut |-> FALSE,    \* the login button was there and the wait for the profile button raised
           starterFills  |-> 0,        \* fill invocations on starter inputs
           beyondSlice   |-> FALSE,    \* a starter after the first StarterSlice was passed to fill
           saveClicks    |-> 0,        \* clicks of the primary save control
           dialog        |-> "none",   \* what the dialog wait of save_gpt produced
           shareRuns     |-> 0,        \* handle_share_gpt_dialog calls
           finalRuns     |-> 0,        \* handle_final_dialog calls
           onlyMe        |-> 0,        \* invocations of the "Only me" action
           onlyMeClicks  |-> 0,        \* clicks of the "Only me" button
           shareSaveClicks |-> 0,      \* clicks of the Save button of the share dialog
           createResult  |-> "none",   \* return value of create_new_gpt
           scan          |-> NoScan,   \* the container scan check_existing_gpt has just returned from
           init          |-> "none",   \* how initialize_browser ended
           cookies       |-> NoCookies, \* the cookie file load_cookies has just found, and its return value
           teardown      |-> NoTeardown]  \* close_browser: page.close raised; context.close, browser.close were called

\* an input element nothing has been done to
NoField == [prior |-> <<>>, text |-> <<>>, value |-> <<>>,
            focused |-> FALSE, selected |-> FALSE]

\* no call of is_browser_alive under way
NoHealth == [browser |-> FALSE, context |-> FALSE, page |-> FALSE, closed |-> FALSE,
             ev |-> "ok", evaluated |-> FALSE, value |-> "none"]

\* no cookie file
NoFile == [kind |-> "absent", cookies |-> {}]

\* no call of save_cookies under way
NoJar == [prior |-> NoFile, file |-> NoFile, context |-> FALSE, live |-> {},
          got |-> {}, failed |-> "none"]

Raise(kind) == pc' = "except" /\ exc' = kind

Init ==
  /\ pc = "for"
  /\ attempt = 0
  /\ mgr = [k \in Attempts |-> NoManager]
  /\ config_file \in Configs
  /\ config = "unset"
  /\ existing_gpt = "None"
  /\ exc = "none"
  /\ after = "none"
  /\ result = "running"
  /\ idx = 0
  /\ applied = 0
  /\ unres = TRUE
  /\ i = 0
  /\ obs = NewObs
  /\ managersCreated = 0
  /\ browsersLaunched = 0
  /\ initCalls = 0
  /\ playwright = 0
  /\ configLoads = 0
  /\ field = NoField
  /\ health = NoHealth
  /\ jar = NoJar

----------------------------------------------------------------------------
(* setup_gpt                                                               *)

\* a loop that stops one iteration late
InRangeInclusive(a) == a <= max_retries

\* attempt in range(max_retries)
InRange(a) == a < max_retries

\* for attempt in range(max_retries): gpt_manager = GPTManager()
for_attempt ==
  /\ pc = "for" /\ InRange(attempt)
  /\ mgr' = [mgr EXCEPT ![attempt] = NewManager]
  /\ managersCreated' = managersCreated + 1
  /\ obs' = NewObs
  /\ pc' = "load_config"
  /\ UNCHANGED <<attempt, config_file, units, locals, exc, after, result, strat,
                 browsersLaunched, initCalls, playwright, configLoads>>

\* the loop ran out: final_cleanup(); return None
loop_exhausted ==
  /\ pc = "for" /\ ~InRange(attempt)
  /\ result' = "None"
  /\ pc' = "done"
  /\ UNCHANGED <<attempt, mgr, config_file, units, locals, exc, after, strat, obs, counters>>

\* a load whose failure goes unnoticed
load_config_unraised ==
  /\ pc = "load_config"
  /\ config' = config_file
  /\ pc' = "initialize_browser"
  /\ exc' = exc
  /\ configLoads' = configLoads + 1
  /\ UNCHANGED <<attempt, mgr, config_file, units, existing_gpt, after, result, strat, obs,
                 managersCreated, browsersLaunched, initCalls, playwright>>

\* config = gpt_manager.load_config_from_json(config_file)
load_config_from_json ==
  /\ pc = "load_config"
  /\ IF config_file.ok
       THEN /\ config' = config_file
            /\ pc' = "initialize_browser"
            /\ exc' = exc
       ELSE /\ config' = config
            /\ Raise("other")
  /\ configLoads' = configLoads + 1
  /\ UNCHANGED <<attempt, mgr, config_file, units, existing_gpt, after, result, strat, obs,
                 managersCreated, browsersLaunched, initCalls, playwright>>

\* the references initialize_browser has assigned when it stops at outcome o
InitRefs(m, o) ==
  [m EXCEPT !.browser = o \in {"context_fail", "page_fail", "script_fail", "ok"},
            !.context = o \in {"page_fail", "script_fail", "ok"},
            !.page    = o \in {"script_fail", "ok"}]

InitOutcomes == {"launch_fail", "context_fail", "page_fail", "script_fail", "ok"}

\* the cookie file load_cookies can find: absent, present but not readable,
\* readable but not JSON, JSON that context.add_cookies rejects, or accepted
CookieFiles == {"missing", "unreadable", "invalid", "rejected", "valid"}

\* a load_cookies without its try block
load_cookies_unguarded(c) ==
  [value |-> c = "valid", raised |-> c \in {"unreadable", "invalid", "rejected"}]

\* load_cookies (lines 70-81): os.path.exists false skips the block and
\* returns False; an exception of open, json.load or add_cookies is caught
\* (line 79) and False is returned; otherwise True
load_cookies(c) ==
  CASE c = "missing" -> [value |-> FALSE, raised |-> FALSE]
    [] c \in {"unreadable", "invalid", "rejected"} -> [value |-> FALSE, raised |-> FALSE]
    [] OTHER -> [value |-> TRUE, raised |-> FALSE]

\* an initialize_browser whose failure does not reach setup_gpt
initialize_browser_failure_ignored ==
  /\ pc = "initialize_browser"
  /\ \E o \in InitOutcomes, c \in CookieFiles :
       /\ mgr' = [mgr EXCEPT ![attempt] = InitRefs(@, o)]
       /\ playwright' = playwright + 1
       /\ browsersLaunched' = browsersLaunched + (IF o = "launch_fail" THEN 0 ELSE 1)
       /\ obs' = [obs EXCEPT !.init = o]
       /\ pc' = "login_goto" /\ exc' = exc
  /\ initCalls' = initCalls + 1
  /\ UNCHANGED <<attempt, config_file, units, locals, after, result, strat, managersCreated,
                 configLoads>>

\* await gpt_manager.initialize_browser(): the steps of lines 85-111 stop at
\* the first that raises; when all succeed load_cookies runs (line 114).
\* The driver line 85 starts is held by a local variable of this function
\* only; the outcomes are those of the calls made on a started driver
initialize_browser ==
  /\ pc = "initialize_browser"
  /\ \E o \in InitOutcomes, c \in CookieFiles :
       LET r == load_cookies(c) IN
       /\ mgr' = [mgr EXCEPT ![attempt] = InitRefs(@, o)]
       /\ playwright' = playwright + 1
       /\ browsersLaunched' = browsersLaunched + (IF o = "launch_fail" THEN 0 ELSE 1)
       /\ obs' = [obs EXCEPT !.init = o,
                             !.cookies = IF o = "ok" THEN [file |-> c, value |-> r.value]
                                         ELSE NoCookies]
       /\ IF o = "ok" /\ ~r.raised
            THEN pc' = "login_goto" /\ exc' = exc
            ELSE Raise("other")
  /\ initCalls' = initCalls + 1
  /\ UNCHANGED <<attempt, config_file, units, locals, after, result, strat, managersCreated,
                 configLoads>>

\* a "continue" that leaves the attempt without running the finally block
login_failed_skips_finally ==
  /\ pc = "login_failed"
  /\ IF attempt < max_retries - 1
       THEN pc' = "for" /\ attempt' = attempt + 1 /\ result' = result
       ELSE pc' = "done" /\ attempt' = attempt /\ result' = "None"
  /\ obs' = [obs EXCEPT !.branch = "login_failed"]
  /\ UNCHANGED <<mgr, config_file, units, locals, exc, after, strat, counters>>

\* if not await login_to_openai(): continue, or return None on the last attempt
login_failed ==
  /\ pc = "login_failed"
  /\ after' = IF attempt < max_retries - 1 THEN "iterate" ELSE "return_none"
  /\ obs' = [obs EXCEPT !.branch = "login_failed", !.login = "False"]
  /\ pc' = "finally"
  /\ UNCHANGED <<attempt, mgr, config_file, units, locals, exc, result, strat, counters>>

\* a return that is not covered by the finally block
return_success_without_cleanup ==
  /\ pc = "return_success"
  /\ result' = "SUCCESS"
  /\ obs' = [obs EXCEPT !.branch = "success"]
  /\ pc' = "done"
  /\ UNCHANGED <<attempt, mgr, config_file, units, locals, exc, after, strat, counters>>

\* logger.info("GPT setup completed successfully!"); return "SUCCESS"
return_success ==
  /\ pc = "return_success"
  /\ after' = "return_success"
  /\ obs' = [obs EXCEPT !.branch = "success"]
  /\ pc' = "finally"
  /\ UNCHANGED <<attempt, mgr, config_file, units, locals, exc, result, strat, counters>>

\* except BrowserCrashedException: sleep 3 s unless this was the last attempt
except_BrowserCrashedException ==
  /\ pc = "except" /\ exc = "crash"
  /\ obs' = [obs EXCEPT !.branch = "crash", !.slept = attempt < max_retries - 1]
  /\ after' = "iterate"
  /\ exc' = "none"
  /\ pc' = "finally"
  /\ UNCHANGED <<attempt, mgr, config_file, units, locals, result, strat, counters>>

\* except Exception: sleep 3 s unless this was the last attempt
except_Exception ==
  /\ pc = "except" /\ exc = "other"
  /\ obs' = [obs EXCEPT !.branch = "other", !.slept = attempt < max_retries - 1]
  /\ after' = "iterate"
  /\ exc' = "none"
  /\ pc' = "finally"
  /\ UNCHANGED <<attempt, mgr, config_file, units, locals, result, strat, counters>>

----------------------------------------------------------------------------
(* GPTManager.close_browser                                                *)

\* the first cleanup block (lines 124-144): each close is reached only if the
\* ones before it did not raise; returns the references and whether it raised
CloseBlock(m, pageOpen, pageRaises, contextRaises, browserRaises) ==
  LET closePage == m.page /\ pageOpen
      afterPage == IF closePage /\ ~pageRaises THEN [m EXCEPT !.page = FALSE] ELSE m
      raised1   == closePage /\ pageRaises
      closeCtx  == ~raised1 /\ afterPage.context
      afterCtx  == IF closeCtx /\ ~contextRaises
                     THEN [afterPage EXCEPT !.context = FALSE] ELSE afterPage
      raised2   == raised1 \/ (closeCtx /\ contextRaises)
      closeBr   == ~raised2 /\ afterCtx.browser
      afterBr   == IF closeBr /\ ~browserRaises
                     THEN [afterCtx EXCEPT !.browser = FALSE] ELSE afterCtx
      raised3   == raised2 \/ (closeBr /\ browserRaises)
  IN  [m |-> afterBr, raised |-> raised3]

\* the force close of the except branch (lines 146-155)
ForceClose(r, forceRaises) ==
  IF r.raised /\ r.m.browser /\ ~forceRaises
    THEN [r.m EXCEPT !.browser = FALSE]
    ELSE r.m

\* the close calls lines 124-155 issue on manager m, and those that raise:
\* page.close (127), context.close (133), browser.close (139), and the
\* browser.close of the force close (151)
CloseTrace(m, pageOpen, pageRaises, contextRaises, browserRaises, forceRaises) ==
  LET closePage == m.page /\ pageOpen
      raisedP   == closePage /\ pageRaises
      closeCtx  == ~raisedP /\ m.context
      raisedC   == closeCtx /\ contextRaises
      closeBr   == ~raisedP /\ ~raisedC /\ m.browser
      raisedB   == closeBr /\ browserRaises
      force     == (raisedP \/ raisedC \/ raisedB) /\ m.browser
      If(b, x)  == IF b THEN {x} ELSE {}
  IN  [tried  |-> If(closePage, "page") \cup If(closeCtx, "context")
                    \cup If(closeBr \/ force, "browser"),
       raised |-> If(raisedP, "page") \cup If(raisedC, "context")
                    \cup If(raisedB, "browser") \cup If(force /\ forceRaises, "force")]

\* a reset that clears the page reference only
ResetPageOnly(m) == [m EXCEPT !.page = FALSE]

\* "Reset all references" (lines 157-160)
ResetRefs(m) == [m EXCEPT !.page = FALSE, !.context = FALSE, !.browser = FALSE]

\* close_browser without the final reset of the references
close_browser_no_reset(m, pageOpen, pageRaises, contextRaises, browserRaises, forceRaises) ==
  LET r == CloseBlock(m, pageOpen, pageRaises, contextRaises, browserRaises)
      f == ForceClose(r, forceRaises)
  IN  [f EXCEPT !.closes = m.closes + 1]

\* close_browser as a whole, for one choice of what the environment does
close_browser(m, pageOpen, pageRaises, contextRaises, browserRaises, forceRaises) ==
  LET r == CloseBlock(m, pageOpen, pageRaises, contextRaises, browserRaises)
      f == ForceClose(r, forceRaises)
  IN  [ResetRefs(f) EXCEPT !.closes = m.closes + 1]

\* what is recorded of a trace of close calls
Teardown(t) == [pageRaised   |-> "page" \in t.raised,
                contextTried |-> "context" \in t.tried,
                browserTried |-> "browser" \in t.tried]

\* every way close_browser can go on manager m: the page found open or
\* closed, and each close call returning or raising
CloseOutcomes(m) ==
  {[m        |-> close_browser(m, pageOpen, pageRaises, contextRaises,
                               browserRaises, forceRaises),
    teardown |-> Teardown(CloseTrace(m, pageOpen, pageRaises, contextRaises,
                                     browserRaises, forceRaises))] :
     pageOpen \in BOOLEAN, pageRaises \in BOOLEAN, contextRaises \in BOOLEAN,
     browserRaises \in BOOLEAN, forceRaises \in BOOLEAN}

\* finally: await gpt_manager.close_browser(); then leave or iterate
finally_close ==
  /\ pc = "finally"
  /\ \E r \in CloseOutcomes(mgr[attempt]) :
       /\ mgr' = [mgr EXCEPT ![attempt] = r.m]
       /\ obs' = [obs EXCEPT !.teardown = r.teardown]
  /\ CASE after = "return_success" ->
            result' = "SUCCESS" /\ pc' = "done" /\ attempt' = attempt
       [] after = "return_none" ->
            result' = "None" /\ pc' = "done" /\ attempt' = attempt
       [] OTHER ->
            result' = result /\ pc' = "for" /\ attempt' = attempt + 1
  /\ after' = "none"
  /\ UNCHANGED <<config_file, units, locals, exc, strat, counters>>

----------------------------------------------------------------------------
(* GPTManager.login_to_openai                                              *)

\* page.goto, sleep, wait_for_load_state; a raise ends in "return False"
login_goto ==
  /\ pc = "login_goto"
  /\ \E ok \in BOOLEAN :
       pc' = IF ok THEN "login_ensure1" ELSE "login_failed"
  /\ obs' = [obs EXCEPT !.cookies = NoCookies, !.unchecked = TRUE]
  /\ UNCHANGED <<attempt, mgr, config_file, units, locals, exc, after, result, strat, counters>>

\* ensure_browser_alive() after the navigation: the crash reaches the outer
\* "except BrowserCrashedException: raise"
login_ensure1 ==
  /\ pc = "login_ensure1"
  /\ \E alive \in BOOLEAN :
       IF alive
         THEN pc' = "login_button" /\ exc' = exc /\ obs' = [obs EXCEPT !.unchecked = FALSE]
         ELSE Raise("crash") /\ obs' = [obs EXCEPT !.crashRaised = 195]
  /\ UNCHANGED <<attempt, mgr, config_file, units, locals, after, result, strat, counters>>

\* wait for the login button: absent means already logged in, return True
login_button ==
  /\ pc = "login_button"
  /\ \E found \in BOOLEAN :
       /\ pc' = IF found THEN "login_wait" ELSE "check_ensure1"
       /\ obs' = IF found THEN obs ELSE [obs EXCEPT !.login = "True"]
  /\ UNCHANGED <<attempt, mgr, config_file, units, locals, exc, after, result, strat, counters>>

\* a login that goes on to the workflow after the wait timed out
login_wait_timeout_ignored ==
  /\ pc = "login_wait"
  /\ \E ok \in BOOLEAN :
       /\ pc' = IF ok THEN "login_ensure2" ELSE "check_ensure1"
       /\ obs' = [obs EXCEPT !.loginTimedOut = ~ok]
  /\ UNCHANGED <<attempt, mgr, config_file, units, locals, exc, after, result, strat, counters>>

\* click the button and wait up to 3 minutes for the profile button; a raise
\* becomes Exception("Login failed"), which the outer handler turns into False
login_wait ==
  /\ pc = "login_wait"
  /\ \E ok \in BOOLEAN :
       /\ pc' = IF ok THEN "login_ensure2" ELSE "login_failed"
       /\ obs' = [obs EXCEPT !.loginTimedOut = ~ok]
  /\ UNCHANGED <<attempt, mgr, config_file, units, locals, exc, after, result, strat, counters>>

\* ensure_browser_alive() after login sits inside the inner try: its
\* BrowserCrashedException is caught by "except Exception" (line 224),
\* re-raised as a plain Exception and returned as False (lines 230-232)
login_ensure2 ==
  /\ pc = "login_ensure2"
  /\ \E alive \in BOOLEAN :
       IF alive
         THEN pc' = "check_ensure1" /\ obs' = [obs EXCEPT !.login = "True"]
         ELSE /\ pc' = "login_failed"
              /\ obs' = [obs EXCEPT !.crashRaised = 220, !.crashCaught = TRUE]
  /\ UNCHANGED <<attempt, mgr, config_file, units, locals, exc, after, result, strat, counters>>

----------------------------------------------------------------------------
(* GPTManager.check_existing_gpt                                           *)

\* bound: most containers the "My GPTs" page lists
MaxContainers == 2

\* what one div[tabindex="0"] container does when the loop reaches it:
\* its text does not contain the name (or reading it raises); it matches and
\* its edit button is clicked (the click returns or raises); it matches, has
\* no edit button, and its first button is clicked (returns or raises); it
\* matches and has no button at all
ContainerKinds == {"nomatch", "edit_ok", "edit_raise", "fallback_ok",
                   "fallback_raise", "nobutton"}

RECURSIVE SeqsUpTo(_, _)
SeqsUpTo(S, n) ==
  IF n = 0 THEN {<<>>}
  ELSE LET shorter == SeqsUpTo(S, n - 1)
       IN  shorter \cup {Append(s, x) : s \in {t \in shorter : Len(t) = n - 1}, x \in S}

\* for container in gpt_containers: ... (lines 280-314); clicks counts the
\* clicks issued on edit or fallback buttons
RECURSIVE ScanContainers(_, _)
ScanContainers(cs, clicks) ==
  IF cs = <<>> THEN [value |-> "None", clicks |-> clicks]
  ELSE LET c == Head(cs) IN
       CASE c \in {"edit_ok", "fallback_ok"} ->
              [value |-> "EDIT_BUTTON_CLICKED", clicks |-> clicks + 1]
         [] c \in {"edit_raise", "fallback_raise"} ->
              ScanContainers(Tail(cs), clicks + 1)
         [] OTHER -> ScanContainers(Tail(cs), clicks)

\* await self.ensure_browser_alive() at the top of check_existing_gpt
check_ensure1 ==
  /\ pc = "check_ensure1"
  /\ \E alive \in BOOLEAN :
       IF alive
         THEN /\ pc' = "check_goto" /\ exc' = exc
              /\ obs' = [obs EXCEPT !.attempted = @ \cup {"locate"}]
         ELSE /\ Raise("crash")
              /\ obs' = [obs EXCEPT !.attempted = @ \cup {"locate"}, !.crashRaised = 265]
  /\ UNCHANGED <<attempt, mgr, config_file, units, locals, after, result, strat, counters>>

\* goto "My GPTs", wait_for_load_state, sleep; a raise returns None (line 321)
check_goto ==
  /\ pc = "check_goto"
  /\ \E ok \in BOOLEAN :
       IF ok
         THEN pc' = "check_ensure2" /\ existing_gpt' = existing_gpt
         ELSE pc' = "create_ensure1" /\ existing_gpt' = "None"
  /\ obs' = [obs EXCEPT !.unchecked = TRUE]
  /\ UNCHANGED <<attempt, mgr, config_file, units, config, exc, after, result, strat, counters>>

\* a check_existing_gpt that goes from the navigation straight to the containers
check_ensure2_skipped ==
  /\ pc = "check_ensure2"
  /\ pc' = "check_containers"
  /\ UNCHANGED <<exc, obs>>
  /\ UNCHANGED <<attempt, mgr, config_file, units, locals, after, result, strat, counters>>

\* await self.ensure_browser_alive() after the navigation
check_ensure2 ==
  /\ pc = "check_ensure2"
  /\ \E alive \in BOOLEAN :
       IF alive
         THEN pc' = "check_containers" /\ exc' = exc /\ obs' = [obs EXCEPT !.unchecked = FALSE]
         ELSE Raise("crash") /\ obs' = [obs EXCEPT !.crashRaised = 275]
  /\ UNCHANGED <<attempt, mgr, config_file, units, locals, after, result, strat, counters>>

\* the containers of the page whose text contains gpt_name (line 286); every
\* kind but "nomatch" is a container that matches
RECURSIVE Matches(_)
Matches(cs) ==
  IF cs = <<>> THEN 0
  ELSE (IF Head(cs) = "nomatch" THEN 0 ELSE 1) + Matches(Tail(cs))

\* query the containers and scan them; a raise of the query returns None
check_containers ==
  /\ pc = "check_containers"
  /\ \/ /\ existing_gpt' = "None"
        /\ obs' = obs
     \/ \E cs \in SeqsUpTo(ContainerKinds, MaxContainers) :
          LET r == ScanContainers(cs, 0) IN
          /\ existing_gpt' = r.value
          /\ obs' = [obs EXCEPT !.scan = [scanned |-> TRUE, matches |-> Matches(cs),
                                          clicks |-> r.clicks]]
  /\ pc' = "create_ensure1"
  /\ UNCHANGED <<attempt, mgr, config_file, units, config, exc, after, result, strat, counters>>

----------------------------------------------------------------------------
(* GPTManager.create_new_gpt: reaching the editor                          *)

\* create_new_gpt returns False from its "except Exception" (lines 453-455)
\* or from "if not await self.navigate_to_gpt_builder()"; setup_gpt ignores
\* the value (line 941) and goes on to return "SUCCESS"
CreateReturns(v) ==
  /\ pc' = "return_success"
  /\ obs' = [obs EXCEPT !.createResult = v]

\* await self.ensure_browser_alive() at the top of create_new_gpt, then the
\* branch on existing_gpt_url; check_existing_gpt only ever returns None or
\* "EDIT_BUTTON_CLICKED", so the goto(existing_gpt_url) branch is never taken
create_ensure1 ==
  /\ pc = "create_ensure1"
  /\ \E alive \in BOOLEAN :
       IF alive
         THEN /\ pc' = IF existing_gpt = "EDIT_BUTTON_CLICKED"
                         THEN "create_wait_edit" ELSE "navigate_goto"
              /\ exc' = exc
              /\ obs' = [obs EXCEPT !.scan = NoScan, !.unchecked = FALSE]
         ELSE /\ Raise("crash")
              /\ obs' = [obs EXCEPT !.crashRaised = 326, !.scan = NoScan]
  /\ UNCHANGED <<attempt, mgr, config_file, units, locals, after, result, strat, counters>>

\* edit button already clicked: wait_for_load_state, sleep
create_wait_edit ==
  /\ pc = "create_wait_edit"
  /\ \E ok \in BOOLEAN :
       IF ok THEN pc' = "create_ensure2" /\ obs' = obs
             ELSE CreateReturns("False")
  /\ UNCHANGED <<attempt, mgr, config_file, units, locals, exc, after, result, strat, counters>>

\* navigate_to_gpt_builder: goto the editor, wait_for_load_state, sleep; a
\* raise returns False and create_new_gpt returns False
navigate_goto ==
  /\ pc = "navigate_goto"
  /\ \E ok \in BOOLEAN :
       IF ok THEN pc' = "navigate_ensure" /\ obs' = [obs EXCEPT !.unchecked = TRUE]
             ELSE /\ pc' = "return_success"
                  /\ obs' = [obs EXCEPT !.createResult = "False", !.unchecked = TRUE]
  /\ UNCHANGED <<attempt, mgr, config_file, units, locals, exc, after, result, strat, counters>>

\* navigate_to_gpt_builder: ensure_browser_alive after the navigation
navigate_ensure ==
  /\ pc = "navigate_ensure"
  /\ \E alive \in BOOLEAN :
       IF alive
         THEN pc' = "navigate_title" /\ exc' = exc /\ obs' = [obs EXCEPT !.unchecked = FALSE]
         ELSE Raise("crash") /\ obs' = [obs EXCEPT !.crashRaised = 245]
  /\ UNCHANGED <<attempt, mgr, config_file, units, locals, after, result, strat, counters>>

\* navigate_to_gpt_builder: page.title() for the debug log, then return True
navigate_title ==
  /\ pc = "navigate_title"
  /\ \E ok \in BOOLEAN :
       IF ok THEN pc' = "create_ensure2" /\ obs' = obs
             ELSE CreateReturns("False")
  /\ UNCHANGED <<attempt, mgr, config_file, units, locals, exc, after, result, strat, counters>>

\* await self.ensure_browser_alive() once the editor is reached (339 / 345)
create_ensure2 ==
  /\ pc = "create_ensure2"
  /\ \E alive \in BOOLEAN :
       IF alive
         THEN pc' = "configure_tab" /\ UNCHANGED <<exc, obs>>
         ELSE /\ Raise("crash")
              /\ obs' = [obs EXCEPT !.crashRaised =
                           IF existing_gpt = "EDIT_BUTTON_CLICKED" THEN 339 ELSE 345]
  /\ UNCHANGED <<attempt, mgr, config_file, units, locals, after, result, strat, counters>>

----------------------------------------------------------------------------
(* Fallback lists.  A strategy is wait_for_selector followed by the action *)
(* on the element; it fails to resolve ("unresolved"), resolves and then   *)
(* raises in click / press / fill ("error"), or resolves and applies.      *)

Outcomes == {"unresolved", "error", "applied"}

\* click_configure_tab: the data-testid selector, then configure_selectors
configure_selectors ==
  << "button[data-testid='gizmo-editor-configure-button']",
     "button:has-text('Configure')", "div:has-text('Configure')",
     "tab:has-text('Configure')", "[role='tab']:has-text('Configure')",
     "button[aria-selected='false']:has-text('Configure')",
     "a:has-text('Configure')" >>

\* the single selector of the name field
name_selectors ==
  << "input[placeholder*='Name'], input[placeholder*='name'], textarea[placeholder*='Name']" >>

\* description: the data-testid selector, then desc_selectors
desc_selectors ==
  << "input[data-testid='gizmo-description-input']",
     "textarea[placeholder*='Description']", "input[placeholder*='Description']",
     "textarea[placeholder*='description']" >>

\* instructions: the data-testid selector, then instructions_selectors
instructions_selectors ==
  << "textarea[data-testid='gizmo-instructions-input']",
     "textarea[placeholder*='Instructions']", "textarea[placeholder*='instructions']",
     "div[contenteditable='true']" >>

\* configure_actions: the specific schema selector, then schema_selectors
schema_selectors ==
  << "textarea[placeholder*='Enter your OpenAPI schema here']",
     "textarea[placeholder*='schema']", "textarea[placeholder*='OpenAPI']",
     "textarea[placeholder*='Schema']", "div[contenteditable='true']" >>

\* configure_actions: the save control of the action sub-entity
action_save_selectors ==
  << "button:has-text('Create')", "button:has-text('Save')", "button:has-text('Update')" >>

\* configure_actions_fallback: the control that opens a new action
actions_selectors ==
  << "button:has-text('Create new action')", "button:has-text('Add action')",
     "button:has-text('Actions')", "[data-testid='action-button']" >>

\* configure_actions_fallback: schema_selectors
fallback_schema_selectors ==
  << "textarea[placeholder*='schema']", "textarea[placeholder*='OpenAPI']",
     "textarea[placeholder*='Schema']", "div[contenteditable='true']" >>

\* save_gpt: save_selectors
save_selectors ==
  << "button:has(div:has-text('Create'))", "button:has(div:has-text('Update'))",
     "button:has(span:has-text('Create'))", "button:has(span:has-text('Update'))",
     "button div:has-text('Create')", "button div:has-text('Update')" >>

\* the strategy loop leaves the logical action
LeaveAction == idx' = 0 /\ applied' = 0 /\ unres' = TRUE

\* one pass of "for selector in selectors: try: wait, act, break; except:
\* continue" with outcome o: the next selector in declaration order is tried;
\* "applied" breaks out of the loop, anything else continues until the list
\* is exhausted
TryNext(selectors, o, donePc) ==
  IF o = "applied" \/ idx + 1 = Len(selectors)
    THEN pc' = donePc /\ LeaveAction
    ELSE /\ pc' = pc
         /\ idx' = idx + 1
         /\ applied' = applied
         /\ unres' = (unres /\ o = "unresolved")

\* a field whose every strategy failed to resolve is left unset
NoteExhausted(selectors, o) ==
  IF idx + 1 = Len(selectors) /\ o = "unresolved" /\ unres
    THEN [obs EXCEPT !.exhausted = TRUE]
    ELSE obs

\* the first strategy of a field, whose try block ends with ensure_browser_alive
\* and whose except branch runs the fallback list
TryFirst(o, ensurePc, fallbackPc) ==
  /\ idx' = 1
  /\ applied' = IF o = "applied" THEN 1 ELSE 0
  /\ unres' = (o = "unresolved")
  /\ pc' = IF o = "applied" THEN ensurePc ELSE fallbackPc

\* click_configure_tab: each strategy returns True as soon as it has clicked;
\* with no strategy left the method still returns True
click_configure_tab ==
  /\ pc = "configure_tab"
  /\ \E o \in Outcomes : TryNext(configure_selectors, o, "fill_name")
  /\ UNCHANGED <<attempt, mgr, config_file, units, locals, exc, after, result, i, obs, counters>>

\* name: list the inputs, wait for the name input, click, Control+a, fill
fill_name ==
  /\ pc = "fill_name"
  /\ \E o \in Outcomes :
       /\ pc' = IF o = "applied" THEN "name_ensure" ELSE "fill_description"
       /\ obs' = [NoteExhausted(name_selectors, o) EXCEPT
                    !.attempted = @ \cup {"name"}]
  /\ UNCHANGED <<attempt, mgr, config_file, units, locals, exc, after, result, strat, counters>>

\* ensure_browser_alive of a field's try block: "except Exception" (lines
\* 373, 387, 416) catches the BrowserCrashedException and the method goes on
EnsureInField(line, alivePc, deadPc) ==
  \E alive \in BOOLEAN :
    IF alive
      THEN pc' = alivePc /\ obs' = obs
      ELSE /\ pc' = deadPc
           /\ obs' = [obs EXCEPT !.crashRaised = line, !.crashCaught = TRUE]

\* name: ensure_browser_alive inside the try; the handler only logs
name_ensure ==
  /\ pc = "name_ensure"
  /\ EnsureInField(372, "fill_description", "fill_description")
  /\ UNCHANGED <<attempt, mgr, config_file, units, locals, exc, after, result, strat, counters>>

\* description: the data-testid strategy
fill_description ==
  /\ pc = "fill_description"
  /\ \E o \in Outcomes : TryFirst(o, "desc_ensure", "desc_fallback")
  /\ obs' = [obs EXCEPT !.attempted = @ \cup {"description"}]
  /\ UNCHANGED <<attempt, mgr, config_file, units, locals, exc, after, result, i, counters>>

\* description: ensure_browser_alive inside the try; on a crash the handler
\* runs the fallback selectors
desc_ensure ==
  /\ pc = "desc_ensure"
  /\ EnsureInField(386, "fill_instructions", "desc_fallback")
  /\ IF pc' = "fill_instructions" THEN LeaveAction ELSE UNCHANGED <<idx, applied, unres>>
  /\ UNCHANGED <<attempt, mgr, config_file, units, locals, exc, after, result, i, counters>>

\* description: for selector in desc_selectors
desc_fallback ==
  /\ pc = "desc_fallback"
  /\ \E o \in Outcomes :
       /\ TryNext(desc_selectors, o, "fill_instructions")
       /\ obs' = NoteExhausted(desc_selectors, o)
  /\ UNCHANGED <<attempt, mgr, config_file, units, locals, exc, after, result, i, counters>>

\* instructions: the data-testid strategy
fill_instructions ==
  /\ pc = "fill_instructions"
  /\ \E o \in Outcomes : TryFirst(o, "instr_ensure", "instr_fallback")
  /\ obs' = [obs EXCEPT !.attempted = @ \cup {"instructions"}]
  /\ UNCHANGED <<attempt, mgr, config_file, units, locals, exc, after, result, i, counters>>

\* instructions: ensure_browser_alive inside the try; on a crash the handler
\* runs the fallback selectors
instr_ensure ==
  /\ pc = "instr_ensure"
  /\ EnsureInField(415, "starters_section", "instr_fallback")
  /\ IF pc' = "starters_section" THEN LeaveAction ELSE UNCHANGED <<idx, applied, unres>>
  /\ UNCHANGED <<attempt, mgr, config_file, units, locals, exc, after, result, i, counters>>

\* instructions: for selector in instructions_selectors
instr_fallback ==
  /\ pc = "instr_fallback"
  /\ \E o \in Outcomes :
       /\ TryNext(instructions_selectors, o, "starters_section")
       /\ obs' = NoteExhausted(instructions_selectors, o)
  /\ UNCHANGED <<attempt, mgr, config_file, units, locals, exc, after, result, i, counters>>

----------------------------------------------------------------------------
(* add_conversation_starters, add_conversation_starters_fallback           *)

\* len(starters[:4]) for a list of n starters
Sliced(n) == IF n < StarterSlice THEN n ELSE StarterSlice

\* await input.fill(starter) on the starter at 0-based position k
StarterFill(k) ==
  [obs EXCEPT !.starterFills = @ + 1,
              !.beyondSlice = @ \/ k + 1 > StarterSlice]

\* wait for the "Conversation starters" section; a timeout goes to the
\* fallback method (lines 538-541)
add_conversation_starters ==
  /\ pc = "starters_section"
  /\ \E found \in BOOLEAN :
       pc' = IF ~found THEN "starters_clear"
             ELSE IF Sliced(config.starters) = 0 THEN "load_schema"
             ELSE "starters_loop"
  /\ i' = 0
  /\ obs' = [obs EXCEPT !.attempted = @ \cup {"starters"}]
  /\ UNCHANGED <<attempt, mgr, config_file, units, locals, exc, after, result,
                 idx, applied, unres, counters>>

\* for i, starter in enumerate(starters[:4]): query the section's text inputs
\* (a raise here leaves the loop for the fallback method), and fill input i
\* when there is one; a raise of fill is caught and the loop continues
starters_loop ==
  /\ pc = "starters_loop"
  /\ \E slots \in {-1} \cup (0 .. MaxSlots) :
       IF slots = -1
         THEN pc' = "starters_clear" /\ i' = 0 /\ obs' = obs
         ELSE /\ obs' = IF i < slots THEN StarterFill(i) ELSE obs
              /\ IF i + 1 = Sliced(config.starters)
                   THEN pc' = "load_schema" /\ i' = 0
                   ELSE pc' = pc /\ i' = i + 1
  /\ UNCHANGED <<attempt, mgr, config_file, units, locals, exc, after, result,
                 idx, applied, unres, counters>>

\* clear_conversation_starters: every failure inside is caught
clear_conversation_starters ==
  /\ pc = "starters_clear"
  /\ pc' = IF Sliced(config.starters) = 0 THEN "load_schema" ELSE "starters_fallback"
  /\ i' = 0
  /\ UNCHANGED <<attempt, mgr, config_file, units, locals, exc, after, result,
                 idx, applied, unres, obs, counters>>

\* fallback: for i, starter in enumerate(starters[:4]): find an input (or an
\* Add button that creates one) and fill it; fill is invoked at most once per
\* iteration, and every failure is caught inside the iteration
add_conversation_starters_fallback ==
  /\ pc = "starters_fallback"
  /\ \E fillInvoked \in BOOLEAN :
       obs' = IF fillInvoked THEN StarterFill(i) ELSE obs
  /\ IF i + 1 = Sliced(config.starters)
       THEN pc' = "load_schema" /\ i' = 0
       ELSE pc' = pc /\ i' = i + 1
  /\ UNCHANGED <<attempt, mgr, config_file, units, locals, exc, after, result,
                 idx, applied, unres, counters>>

----------------------------------------------------------------------------
(* configure_actions, configure_actions_fallback                           *)

\* if config.get('openapi_spec_file'): load_openapi_schema(...); a file that
\* cannot be loaded raises into create_new_gpt's "except Exception"
load_openapi_schema ==
  /\ pc = "load_schema"
  /\ CASE config.schema = "none" -> pc' = "save_ensure" /\ obs' = obs
       [] config.schema = "ok" ->
            /\ pc' = "actions_ensure"
            /\ obs' = [obs EXCEPT !.attempted = @ \cup {"integration"}]
       [] OTHER ->
            /\ pc' = "return_success"
            /\ obs' = [obs EXCEPT !.attempted = @ \cup {"integration"},
                                  !.createResult = "False"]
  /\ UNCHANGED <<attempt, mgr, config_file, units, locals, exc, after, result, strat, counters>>

\* await self.ensure_browser_alive() at the top of configure_actions
actions_ensure ==
  /\ pc = "actions_ensure"
  /\ \E alive \in BOOLEAN :
       IF alive
         THEN pc' = "actions_section" /\ UNCHANGED <<exc, obs>>
         ELSE Raise("crash") /\ obs' = [obs EXCEPT !.crashRaised = 622]
  /\ UNCHANGED <<attempt, mgr, config_file, units, locals, after, result, strat, counters>>

\* find the Actions section and open an existing or a new action; a raise
\* outside the inner guards goes to configure_actions_fallback and returns
actions_section ==
  /\ pc = "actions_section"
  /\ \E ok \in BOOLEAN :
       pc' = IF ok THEN "schema_fill" ELSE "actions_fallback"
  /\ UNCHANGED <<attempt, mgr, config_file, units, locals, exc, after, result, strat, obs, counters>>

\* the schema textarea: the specific selector first, then schema_selectors
schema_fill ==
  /\ pc = "schema_fill"
  /\ \E o \in Outcomes : TryNext(schema_selectors, o, "action_save")
  /\ UNCHANGED <<attempt, mgr, config_file, units, locals, exc, after, result, i, obs, counters>>

\* for selector in action_save_selectors: click the action's save control
action_save ==
  /\ pc = "action_save"
  /\ \E o \in Outcomes : TryNext(action_save_selectors, o, "save_ensure")
  /\ UNCHANGED <<attempt, mgr, config_file, units, locals, exc, after, result, i, obs, counters>>

\* configure_actions_fallback: query existing actions; a raise ends the
\* method, an existing action is clicked, otherwise a new one is opened
configure_actions_fallback ==
  /\ pc = "actions_fallback"
  /\ \E o \in {"raise", "existing", "none"} :
       pc' = CASE o = "raise" -> "save_ensure"
               [] o = "existing" -> "fallback_schema"
               [] OTHER -> "fallback_open"
  /\ UNCHANGED <<attempt, mgr, config_file, units, locals, exc, after, result, strat, obs, counters>>

\* configure_actions_fallback: for selector in actions_selectors
fallback_open ==
  /\ pc = "fallback_open"
  /\ \E o \in Outcomes : TryNext(actions_selectors, o, "fallback_schema")
  /\ UNCHANGED <<attempt, mgr, config_file, units, locals, exc, after, result, i, obs, counters>>

\* configure_actions_fallback: for selector in schema_selectors
fallback_schema ==
  /\ pc = "fallback_schema"
  /\ \E o \in Outcomes : TryNext(fallback_schema_selectors, o, "save_ensure")
  /\ UNCHANGED <<attempt, mgr, config_file, units, locals, exc, after, result, i, obs, counters>>

----------------------------------------------------------------------------
(* save_gpt, handle_share_gpt_dialog, handle_final_dialog                  *)

\* await self.ensure_browser_alive() at the top of save_gpt
save_ensure ==
  /\ pc = "save_ensure"
  /\ \E alive \in BOOLEAN :
       IF alive
         THEN /\ pc' = "save_button"
              /\ obs' = [obs EXCEPT !.attempted = @ \cup {"save"}]
              /\ exc' = exc
         ELSE /\ Raise("crash")
              /\ obs' = [obs EXCEPT !.attempted = @ \cup {"save"}, !.crashRaised = 805]
  /\ UNCHANGED <<attempt, mgr, config_file, units, locals, after, result, strat, counters>>

\* a save_gpt that waits for the dialog even when no selector was clicked
save_button_dialog_anyway ==
  /\ pc = "save_button"
  /\ \E o \in Outcomes :
       /\ TryNext(save_selectors, o, "save_dialog")
       /\ obs' = IF o = "applied" THEN [obs EXCEPT !.saveClicks = @ + 1] ELSE obs
  /\ UNCHANGED <<attempt, mgr, config_file, units, locals, exc, after, result, i, counters>>

\* for selector in save_selectors: wait, click, break; the for-else returns
\* None when no selector was clicked, and create_new_gpt then returns True
save_button ==
  /\ pc = "save_button"
  /\ \E o \in Outcomes :
       /\ TryNext(save_selectors, o, IF o = "applied" THEN "save_dialog" ELSE "return_success")
       /\ obs' = IF o = "applied" THEN [obs EXCEPT !.saveClicks = @ + 1]
                 ELSE IF idx + 1 = Len(save_selectors)
                        THEN [obs EXCEPT !.createResult = "True"]
                        ELSE obs
  /\ UNCHANGED <<attempt, mgr, config_file, units, locals, exc, after, result, i, counters>>

\* what the dialog wait yields: no element within the timeout, an element
\* whose text cannot be read, or the signatures its text contains
Dialogs == {"timeout", "unreadable", "share", "updated", "both", "other"}

\* a dispatch that takes every recognised dialog for the share dialog
DialogBranchShareOnly(d) ==
  IF d \in {"share", "updated", "both"} THEN "share" ELSE "none"

\* if "Share GPT" in dialog_text: ... elif "GPT Updated" in dialog_text: ...
DialogBranch(d) ==
  CASE d \in {"share", "both"} -> "share"
    [] d = "updated" -> "final"
    [] OTHER -> "none"

\* a dialog wait whose timeout leaves save_gpt as an exception
save_dialog_timeout_raises ==
  /\ pc = "save_dialog"
  /\ \E d \in Dialogs :
       LET b == DialogBranch(d) IN
       /\ IF d = "timeout"
            THEN Raise("other")
            ELSE /\ exc' = exc
                 /\ pc' = CASE b = "share" -> "share_only_me"
                            [] b = "final" -> "final_view"
                            [] OTHER -> "return_success"
       /\ obs' = [obs EXCEPT !.dialog = d,
                             !.shareRuns = @ + (IF b = "share" THEN 1 ELSE 0),
                             !.finalRuns = @ + (IF b = "final" THEN 1 ELSE 0),
                             !.createResult = IF b = "none" /\ d # "timeout" THEN "True" ELSE @]
  /\ UNCHANGED <<attempt, mgr, config_file, units, locals, after, result, strat, counters>>

\* wait for a dialog and dispatch on its text
save_dialog ==
  /\ pc = "save_dialog"
  /\ \E d \in Dialogs :
       LET b == DialogBranch(d) IN
       /\ pc' = CASE b = "share" -> "share_only_me"
                  [] b = "final" -> "final_view"
                  [] OTHER -> "return_success"
       /\ obs' = [obs EXCEPT !.dialog = d,
                             !.shareRuns = @ + (IF b = "share" THEN 1 ELSE 0),
                             !.finalRuns = @ + (IF b = "final" THEN 1 ELSE 0),
                             !.createResult = IF b = "none" THEN "True" ELSE @]
  /\ UNCHANGED <<attempt, mgr, config_file, units, locals, exc, after, result, strat, counters>>

\* handle_share_gpt_dialog: wait for "Only me" and click it; a failure is
\* logged and the method goes on to the dialog's Save button
share_only_me ==
  /\ pc = "share_only_me"
  /\ \E clicked \in BOOLEAN :
       obs' = [obs EXCEPT !.onlyMe = @ + 1,
                          !.onlyMeClicks = @ + (IF clicked THEN 1 ELSE 0)]
  /\ pc' = "share_save"
  /\ UNCHANGED <<attempt, mgr, config_file, units, locals, exc, after, result, strat, counters>>

\* a share flow that goes back to the name field after the dialog's Save
share_save_refills ==
  /\ pc = "share_save"
  /\ \E ok \in BOOLEAN :
       IF ok
         THEN /\ pc' = "fill_name"
              /\ obs' = [obs EXCEPT !.finalRuns = @ + 1, !.shareSaveClicks = @ + 1]
         ELSE pc' = "return_success" /\ obs' = [obs EXCEPT !.createResult = "True"]
  /\ UNCHANGED <<attempt, mgr, config_file, units, locals, exc, after, result, strat, counters>>

\* handle_share_gpt_dialog: click Save in the dialog, then handle_final_dialog;
\* a failure returns None
share_save ==
  /\ pc = "share_save"
  /\ \E ok \in BOOLEAN :
       IF ok
         THEN /\ pc' = "final_view"
              /\ obs' = [obs EXCEPT !.finalRuns = @ + 1, !.shareSaveClicks = @ + 1]
         ELSE pc' = "return_success" /\ obs' = [obs EXCEPT !.createResult = "True"]
  /\ UNCHANGED <<attempt, mgr, config_file, units, locals, exc, after, result, strat, counters>>

\* handle_final_dialog: click "View GPT" if it is there; returns None, and
\* create_new_gpt returns True
handle_final_dialog ==
  /\ pc = "final_view"
  /\ pc' = "return_success"
  /\ obs' = [obs EXCEPT !.createResult = "True"]
  /\ UNCHANGED <<attempt, mgr, config_file, units, locals, exc, after, result, strat, counters>>

----------------------------------------------------------------------------

Next ==
  \/ for_attempt
  \/ loop_exhausted
  \/ load_config_from_json
  \/ initialize_browser
  \/ login_failed
  \/ return_success
  \/ except_BrowserCrashedException
  \/ except_Exception
  \/ finally_close
  \/ login_goto
  \/ login_ensure1
  \/ login_button
  \/ login_wait
  \/ login_ensure2
  \/ check_ensure1
  \/ check_goto
  \/ check_ensure2
  \/ check_containers
  \/ create_ensure1
  \/ create_wait_edit
  \/ navigate_goto
  \/ navigate_ensure
  \/ navigate_title
  \/ create_ensure2
  \/ click_configure_tab
  \/ fill_name
  \/ name_ensure
  \/ fill_description
  \/ desc_ensure
  \/ desc_fallback
  \/ fill_instructions
  \/ instr_ensure
  \/ instr_fallback
  \/ add_conversation_starters
  \/ starters_loop
  \/ clear_conversation_starters
  \/ add_conversation_starters_fallback
  \/ load_openapi_schema
  \/ actions_ensure
  \/ actions_section
  \/ schema_fill
  \/ action_save
  \/ configure_actions_fallback
  \/ fallback_open
  \/ fallback_schema
  \/ save_ensure
  \/ save_button
  \/ save_dialog
  \/ share_only_me
  \/ share_save
  \/ handle_final_dialog

Spec == Init /\ [][Next]_vars

----------------------------------------------------------------------------
(* Applying a value to the name, description, instructions or schema       *)
(* field: element.click(), keyboard.press('Control+a'), element.fill(v)    *)
(* (lines 368-370, 382-384, 399-401, 411-413, 428-430, 695-697, 715-717,   *)
(* 791-793).  The element is modelled by its text, whether it has the      *)
(* focus and whether its whole text is selected.                           *)

\* bound: longest text an element or a supplied value holds, in characters
MaxText == 2

Chars == {"a", "b"}

Texts == SeqsUpTo(Chars, MaxText)

\* element.click(): the element takes the focus, the selection collapses
Click(f) == [f EXCEPT !.focused = TRUE, !.selected = FALSE]

\* page.keyboard.press('Control+a'): selects the text of the focused element
SelectAll(f) == [f EXCEPT !.selected = f.focused]

\* a fill that adds the value to what the element already holds
FillAppends(f, v) == [f EXCEPT !.text = f.text \o v, !.focused = TRUE, !.selected = FALSE]

\* element.fill(v): Playwright focuses the element and sets its value to v
Fill(f, v) == [f EXCEPT !.text = v, !.focused = TRUE, !.selected = FALSE]

\* setup_gpt is not running
Idle ==
  /\ attempt = 0
  /\ mgr = [k \in Attempts |-> NoManager]
  /\ config_file = BadConfig
  /\ config = "unset"
  /\ existing_gpt = "None"
  /\ exc = "none"
  /\ after = "none"
  /\ result = "running"
  /\ idx = 0
  /\ applied = 0
  /\ unres = TRUE
  /\ i = 0
  /\ obs = NewObs
  /\ managersCreated = 0
  /\ browsersLaunched = 0
  /\ initCalls = 0
  /\ playwright = 0
  /\ configLoads = 0

\* an element holding any prior text, and any value to apply to it
InitField ==
  /\ pc = "field_click"
  /\ field \in {[prior |-> p, text |-> p, value |-> v,
                 focused |-> FALSE, selected |-> FALSE] : p \in Texts, v \in Texts}
  /\ health = NoHealth
  /\ jar = NoJar
  /\ Idle

\* await element.click(); a raise ends the strategy
field_click ==
  /\ pc = "field_click"
  /\ \E ok \in BOOLEAN :
       IF ok THEN field' = Click(field) /\ pc' = "field_select_all"
             ELSE field' = field /\ pc' = "field_error"
  /\ UNCHANGED <<workflow, health, jar>>

\* await self.page.keyboard.press('Control+a'); a raise ends the strategy
field_select_all ==
  /\ pc = "field_select_all"
  /\ \E ok \in BOOLEAN :
       IF ok THEN field' = SelectAll(field) /\ pc' = "field_fill"
             ELSE field' = field /\ pc' = "field_error"
  /\ UNCHANGED <<workflow, health, jar>>

\* await element.fill(value); a raise ends the strategy
field_fill ==
  /\ pc = "field_fill"
  /\ \E ok \in BOOLEAN :
       IF ok THEN field' = Fill(field, field.value) /\ pc' = "field_applied"
             ELSE field' = field /\ pc' = "field_error"
  /\ UNCHANGED <<workflow, health, jar>>

NextField ==
  \/ field_click
  \/ field_select_all
  \/ field_fill

SpecField == InitField /\ [][NextField]_vars

----------------------------------------------------------------------------
(* GPTManager.is_browser_alive and ensure_browser_alive (lines 162-180),   *)
(* called on a manager in any state: each of the three references set or   *)
(* None, the page closed or not, and page.evaluate returning, raising or   *)
(* never completing (the call is awaited without a timeout).               *)

EvalOutcomes == {"ok", "throws", "hangs"}

InitHealth ==
  /\ pc = "alive_refs"
  /\ health \in [browser : BOOLEAN, context : BOOLEAN, page : BOOLEAN,
                 closed : BOOLEAN, ev : EvalOutcomes,
                 evaluated : {FALSE}, value : {"none"}]
  /\ field = NoField
  /\ jar = NoJar
  /\ Idle

\* if not self.browser or not self.page or not self.context: return False
is_browser_alive_refs ==
  /\ pc = "alive_refs"
  /\ IF health.browser /\ health.page /\ health.context
       THEN health' = health /\ pc' = "alive_is_closed"
       ELSE health' = [health EXCEPT !.value = "False"] /\ pc' = "alive_returned"
  /\ UNCHANGED <<workflow, field, jar>>

\* if self.page.is_closed(): return False
is_browser_alive_is_closed ==
  /\ pc = "alive_is_closed"
  /\ IF health.closed
       THEN health' = [health EXCEPT !.value = "False"] /\ pc' = "alive_returned"
       ELSE health' = health /\ pc' = "alive_evaluate"
  /\ UNCHANGED <<workflow, field, jar>>

\* await self.page.evaluate("() => true"): the call is issued
is_browser_alive_evaluate ==
  /\ pc = "alive_evaluate"
  /\ health' = [health EXCEPT !.evaluated = TRUE]
  /\ pc' = "alive_awaiting"
  /\ UNCHANGED <<workflow, field, jar>>

\* an evaluate whose exception leaves is_browser_alive
is_browser_alive_result_unguarded ==
  /\ pc = "alive_awaiting" /\ health.ev # "hangs"
  /\ IF health.ev = "ok"
       THEN health' = [health EXCEPT !.value = "True"] /\ pc' = "alive_returned"
       ELSE health' = [health EXCEPT !.value = "raised"] /\ pc' = "alive_raised"
  /\ UNCHANGED <<workflow, field, jar>>

\* the evaluate completes: return True, or except Exception: return False;
\* an evaluate that never completes leaves the call waiting
is_browser_alive_result ==
  /\ pc = "alive_awaiting" /\ health.ev # "hangs"
  /\ health' = [health EXCEPT !.value = IF health.ev = "ok" THEN "True" ELSE "False"]
  /\ pc' = "alive_returned"
  /\ UNCHANGED <<workflow, field, jar>>

\* ensure_browser_alive: raise BrowserCrashedException unless alive
ensure_browser_alive ==
  /\ pc = "alive_returned"
  /\ pc' = IF health.value = "True" THEN "ensure_returned" ELSE "ensure_raised"
  /\ UNCHANGED <<workflow, field, health, jar>>

NextHealth ==
  \/ is_browser_alive_refs
  \/ is_browser_alive_is_closed
  \/ is_browser_alive_evaluate
  \/ is_browser_alive_result
  \/ ensure_browser_alive

SpecHealth == InitHealth /\ [][NextHealth]_vars

----------------------------------------------------------------------------
(* GPTManager.save_cookies (lines 59-68) as close_browser calls it (lines  *)
(* 118-122), on a manager with or without a context and with any cookie    *)
(* file on disk.  A file is absent, holds a JSON list of cookies, or holds  *)
(* text that is not JSON; cookies are told apart by number.                *)

\* bound: number of different cookies the browser context or the file holds
MaxCookies == 2

\* what context.cookies() can return
CookieLists == SUBSET (1 .. MaxCookies)

\* the cookie files a call can find
CookieFileStates ==
  {NoFile, [kind |-> "partial", cookies |-> {}]}
    \cup {[kind |-> "json", cookies |-> c] : c \in CookieLists}

\* open(self.cookies_file, 'w'): the file is created or cut to length zero
Truncate(f) == [kind |-> "partial", cookies |-> {}]

\* json.dump(cookies, f) on the file just opened
Dump(c) == [kind |-> "json", cookies |-> c]

InitCookies ==
  /\ pc = "save_cookies"
  /\ jar \in {[prior |-> f, file |-> f, context |-> x, live |-> c,
               got |-> {}, failed |-> "none"] :
                f \in CookieFileStates, x \in BOOLEAN, c \in CookieLists}
  /\ field = NoField
  /\ health = NoHealth
  /\ Idle

\* if self.context: (line 62); without a context the call returns at once
save_cookies_context ==
  /\ pc = "save_cookies"
  /\ pc' = IF jar.context THEN "cookies_get" ELSE "cookies_returned"
  /\ UNCHANGED <<workflow, field, health, jar>>

\* a save_cookies that opens the file for writing before it asks the context
save_cookies_opens_first ==
  /\ pc = "cookies_get"
  /\ \E ok \in BOOLEAN :
       IF ok THEN jar' = [jar EXCEPT !.got = jar.live, !.file = Truncate(jar.file)]
                  /\ pc' = "cookies_dump"
             ELSE jar' = [jar EXCEPT !.failed = "cookies", !.file = Truncate(jar.file)]
                  /\ pc' = "cookies_returned"
  /\ UNCHANGED <<workflow, field, health>>

\* cookies = await self.context.cookies() (line 63); a raise is caught at
\* line 67 and logged
save_cookies_cookies ==
  /\ pc = "cookies_get"
  /\ \E ok \in BOOLEAN :
       IF ok THEN jar' = [jar EXCEPT !.got = jar.live] /\ pc' = "cookies_open"
             ELSE jar' = [jar EXCEPT !.failed = "cookies"] /\ pc' = "cookies_returned"
  /\ UNCHANGED <<workflow, field, health>>

\* with open(self.cookies_file, 'w') as f: (line 64); a raise leaves the file
save_cookies_open ==
  /\ pc = "cookies_open"
  /\ \E ok \in BOOLEAN :
       IF ok THEN jar' = [jar EXCEPT !.file = Truncate(jar.file)] /\ pc' = "cookies_dump"
             ELSE jar' = [jar EXCEPT !.failed = "open"] /\ pc' = "cookies_returned"
  /\ UNCHANGED <<workflow, field, health>>

\* json.dump(cookies, f) (line 65); a raise leaves what was written so far
save_cookies_dump ==
  /\ pc = "cookies_dump"
  /\ \E ok \in BOOLEAN :
       IF ok THEN jar' = [jar EXCEPT !.file = Dump(jar.got)]
             ELSE jar' = [jar EXCEPT !.failed = "dump"]
  /\ pc' = "cookies_returned"
  /\ UNCHANGED <<workflow, field, health>>

\* close_browser (lines 118-122): save_cookies has returned, never raising,
\* and the cleanup block follows
close_browser_save_cookies ==
  /\ pc = "cookies_returned"
  /\ pc' = "close_block"
  /\ UNCHANGED <<workflow, field, health, jar>>

NextCookies ==
  \/ save_cookies_context
  \/ save_cookies_cookies
  \/ save_cookies_open
  \/ save_cookies_dump
  \/ close_browser_save_cookies

SpecCookies == InitCookies /\ [][NextCookies]_vars

----------------------------------------------------------------------------
(* Properties                                                              *)

Live(m) == m.browser \/ m.context \/ m.page

\* the attempt has left the try block and its handlers
AttemptOver == pc \in {"finally", "for", "done"}

\* positions at which the next step tries one strategy of a fallback list
StrategyPcs == {"configure_tab", "fill_description", "desc_fallback",
                "fill_instructions", "instr_fallback", "schema_fill",
                "fallback_schema", "save_button"}

\* C1: setup_gpt makes at most 3 attempts: never more than 3 GPTManager
\* instances, 3 initialize_browser calls or 3 launched browsers, whatever
\* the failures
C1_AtMostThreeAttempts ==
  /\ managersCreated <= max_retries
  /\ initCalls <= managersCreated
  /\ browsersLaunched <= initCalls
  /\ attempt <= max_retries

\* all three attempts were used, each launched a browser, the last one crashed
C1_Witness ==
  /\ pc = "done" /\ result = "None"
  /\ managersCreated = max_retries /\ browsersLaunched = max_retries
  /\ obs.branch = "crash"

\* C2: when setup_gpt returns SUCCESS at attempt k (1-based; the first whose
\* workflow ran to the end), exactly k managers were created, initialize_browser
\* ran k times, close_browser ran once on each of the k managers, and no
\* further attempt is started
C2_StopsAtFirstCompletion ==
  result = "SUCCESS" =>
    /\ pc = "done" /\ obs.branch = "success"
    /\ managersCreated = attempt + 1
    /\ initCalls = attempt + 1
    /\ \A k \in Attempts :
         /\ mgr[k].created <=> k <= attempt
         /\ mgr[k].closes = (IF k <= attempt THEN 1 ELSE 0)
    /\ ~ENABLED for_attempt

\* success on the second attempt: two sessions opened, two torn down
C2_Witness ==
  /\ result = "SUCCESS" /\ attempt = 1
  /\ initCalls = 2 /\ mgr[0].closes = 1 /\ mgr[1].closes = 1

\* C3: close_browser is invoked exactly once on each attempt's manager: not
\* before the attempt leaves its try block, and once by the time the attempt
\* is over, whichever exit path it took
C3_CloseOncePerAttempt ==
  \A k \in Attempts :
    /\ mgr[k].closes <= 1
    /\ ~mgr[k].created => mgr[k].closes = 0
    /\ (mgr[k].created /\ (k < attempt \/ pc \in {"for", "done"})) => mgr[k].closes = 1
    /\ (k = attempt /\ pc \notin {"for", "done"}) => mgr[k].closes = 0

\* an attempt that ended in the crash branch has been closed once
C3_Witness ==
  /\ pc = "for" /\ attempt = 1
  /\ obs.branch = "crash" /\ mgr[0].closes = 1

\* C4: a BrowserCrashedException raised by ensure_browser_alive reaches
\* setup_gpt as a BrowserCrashedException and is handled by the crash branch
C4_CrashReachesCrashBranch ==
  obs.crashRaised # 0 =>
    \/ pc = "except" /\ exc = "crash"
    \/ obs.branch = "crash"

\* C5: setup_gpt returns SUCCESS only for an attempt in which the primary
\* save control was clicked
C5_SuccessOnlyAfterSaveClick ==
  result = "SUCCESS" => obs.saveClicks >= 1

\* C6: at most one manager holds a browser, context or page at any time;
\* every earlier attempt's close_browser has returned with all three
\* references cleared, and a new manager starts with all three empty
C6_OneLiveSession ==
  /\ \A j, k \in Attempts : (j # k /\ Live(mgr[j])) => ~Live(mgr[k])
  /\ \A k \in Attempts : k < attempt => (~Live(mgr[k]) /\ mgr[k].closes = 1)
  /\ pc \in {"load_config", "initialize_browser"} => ~Live(mgr[attempt])
  /\ pc \in {"for", "done"} => \A k \in Attempts : ~Live(mgr[k])

\* the second attempt is about to open its session after the first was closed
C6_Witness ==
  /\ pc = "initialize_browser" /\ attempt = 1
  /\ mgr[0].closes = 1 /\ browsersLaunched = 1

\* C7: the strategies of a fallback list are tried in declaration order, and
\* no strategy is tried once an earlier one of the same action has resolved
\* its element and applied the action
\* the next step tries a strategy although an earlier one of the same action
\* applied, or does not try the next selector of the list
OutOfOrder == pc \in StrategyPcs /\ (applied # 0 \/ idx' \notin {idx + 1, 0})

C7_FirstAppliedStrategyWins == [][~OutOfOrder]_vars

\* C8: when every strategy of one field failed to resolve and no
\* BrowserCrashedException was raised, the attempt still attempts the other
\* fields, the conversation starters, the integration step (when a schema is
\* configured) and the Save step
C8_FieldFailureDoesNotAbort ==
  (AttemptOver /\ obs.exhausted /\ obs.crashRaised = 0) =>
    /\ {"name", "description", "instructions", "starters", "save"} \subseteq obs.attempted
    /\ config.schema # "none" => "integration" \in obs.attempted

\* C9: after the save click, a dialog text with the Share GPT signature runs
\* the share flow with exactly one "Only me" invocation; otherwise a text
\* with the GPT Updated signature runs the final confirmation and no "Only
\* me" invocation; with neither signature (or no dialog, or no readable
\* text) neither sub-flow runs
C9_DialogDispatch ==
  /\ obs.dialog \in {"share", "both"} =>
        /\ obs.saveClicks = 1 /\ obs.shareRuns = 1
        /\ obs.onlyMe = (IF pc = "share_only_me" THEN 0 ELSE 1)
        /\ obs.onlyMeClicks <= obs.onlyMe
  /\ obs.dialog = "updated" =>
        /\ obs.saveClicks = 1 /\ obs.finalRuns = 1
        /\ obs.shareRuns = 0 /\ obs.onlyMe = 0
  /\ obs.dialog \in {"none", "timeout", "unreadable", "other"} =>
        obs.shareRuns = 0 /\ obs.finalRuns = 0 /\ obs.onlyMe = 0

\* the share dialog appeared and the share flow ran to the end
C9_Witness ==
  /\ pc = "return_success" /\ obs.dialog = "share"
  /\ obs.shareRuns = 1 /\ obs.onlyMe = 1 /\ obs.finalRuns = 1

\* C10: one attempt performs at most 4 starter-fill invocations and uses
\* only the first 4 entries of the list
C10_AtMostFourStarterFills ==
  obs.starterFills <= StarterSlice /\ ~obs.beyondSlice

\* C11: after check_existing_gpt has scanned the containers, it returned None
\* if no container's text contains the name, and it returned
\* "EDIT_BUTTON_CLICKED" after exactly one click if exactly one container does
C11_LocateByName ==
  (pc = "create_ensure1" /\ obs.scan.scanned) =>
    /\ obs.scan.matches = 0 => existing_gpt = "None"
    /\ obs.scan.matches = 1 =>
         (existing_gpt = "EDIT_BUTTON_CLICKED" /\ obs.scan.clicks = 1)

AliveReturned == pc \in {"alive_returned", "ensure_returned", "ensure_raised"}

\* C13: is_browser_alive lets no exception out; it has returned False when it
\* returned with a reference absent, the page closed or the evaluate raising;
\* and with a reference absent or the page closed it never issues the evaluate
C13_HealthCheckNeverRaises ==
  LET absent == ~(health.browser /\ health.context /\ health.page) IN
  /\ pc # "alive_raised" /\ health.value # "raised"
  /\ (absent \/ health.closed) => ~health.evaluated
  /\ (AliveReturned /\ (absent \/ health.closed \/ health.ev = "throws")) =>
       health.value = "False"

\* all three references set, the page open, and the evaluate raised
C13_Witness ==
  /\ pc = "alive_returned"
  /\ health.browser /\ health.context /\ health.page /\ ~health.closed
  /\ health.ev = "throws" /\ health.evaluated /\ health.value = "False"

\* C14: in close_browser a close that raises does not keep a later one from
\* being attempted: when page.close raised, context.close and browser.close
\* were both still called
C14_TeardownStepsIndependent ==
  obs.teardown.pageRaised =>
    (obs.teardown.contextTried /\ obs.teardown.browserTried)

\* C15: a manager whose close_browser has returned holds no browser, no
\* context and no page, whichever of the close calls raised
C15_ReferencesClearedByClose ==
  \A k \in Attempts :
    mgr[k].closes >= 1 => (~mgr[k].browser /\ ~mgr[k].context /\ ~mgr[k].page)

\* close_browser returned after page.close raised, and the references are None
C15_Witness ==
  /\ pc = "for" /\ attempt = 1
  /\ obs.teardown.pageRaised /\ ~obs.teardown.contextTried
  /\ mgr[0].closes = 1 /\ ~Live(mgr[0])

\* C16: with a configuration document that is missing or malformed,
\* setup_gpt makes one attempt only: no second GPTManager is created
C16_BadConfigNotRetried ==
  ~config_file.ok => managersCreated <= 1

\* C17: with a configuration document that is missing or malformed, no
\* attempt calls initialize_browser, no browser is launched, no manager ever
\* holds a browser, context or page, and setup_gpt returns None
C17_BadConfigOpensNoBrowser ==
  ~config_file.ok =>
    /\ initCalls = 0 /\ browsersLaunched = 0
    /\ \A k \in Attempts : ~Live(mgr[k])
    /\ result # "SUCCESS"
    /\ pc = "done" => result = "None"

\* setup_gpt has returned None for a document that cannot be loaded
C17_Witness ==
  /\ ~config_file.ok /\ pc = "done" /\ result = "None"
  /\ managersCreated >= 1 /\ obs.branch = "other"

\* C18: when a further attempt is about to start, the attempt that has just
\* failed (by a crash, a login failure or any other exception) executed the
\* 3 second retry delay
C18_RetryDelayAfterEveryFailure ==
  (pc = "for" /\ attempt >= 1 /\ InRange(attempt)) => obs.slept

\* C19: the 3 second retry delay of a failed attempt is executed only after
\* close_browser has returned for every manager created so far
C19_TeardownBeforeRetryDelay ==
  obs.slept => \A k \in Attempts : mgr[k].created => mgr[k].closes = 1

\* C20: when the login button was there and the wait for the profile button
\* timed out, login_to_openai returns False without any BrowserCrashedException,
\* the attempt does no locate, fill or save step, and a further attempt follows
\* unless this was the last one, in which case setup_gpt returns None
C20_LoginTimeoutFailsAttempt ==
  obs.loginTimedOut =>
    /\ pc \in {"login_failed", "finally", "for", "done"}
    /\ exc = "none" /\ obs.crashRaised = 0
    /\ obs.branch = (IF pc = "login_failed" THEN "none" ELSE "login_failed")
    /\ obs.attempted = {} /\ obs.starterFills = 0 /\ obs.saveClicks = 0
    /\ pc = "finally" =>
         after = (IF attempt < max_retries - 1 THEN "iterate" ELSE "return_none")
    /\ pc = "for" => (InRange(attempt) /\ mgr[attempt - 1].closes = 1)
    /\ pc = "done" => (result = "None" /\ attempt = max_retries - 1)

\* the first attempt's login timed out and the second attempt is about to start
C20_Witness ==
  /\ obs.loginTimedOut /\ pc = "for" /\ attempt = 1
  /\ obs.branch = "login_failed" /\ ENABLED for_attempt

\* the save control was clicked and no recognised dialog followed: the wait
\* timed out, the dialog's text could not be read, or it has neither signature
DialogUnrecognized ==
  obs.saveClicks >= 1 /\ obs.dialog \in {"timeout", "unreadable", "other"}

\* C21: when the save control was clicked and no recognised dialog followed,
\* no exception is in flight, create_new_gpt returns True, the attempt goes
\* to "return SUCCESS" through the finally block, no further attempt is
\* started and setup_gpt returns "SUCCESS"
C21_UnrecognizedDialogStillSucceeds ==
  DialogUnrecognized =>
    /\ pc \in {"return_success", "finally", "done"}
    /\ exc = "none" /\ obs.createResult = "True"
    /\ obs.shareRuns = 0 /\ obs.finalRuns = 0
    /\ obs.branch \in {"none", "success"}
    /\ pc = "finally" => after = "return_success"
    /\ pc = "done" => result = "SUCCESS"
    /\ managersCreated = attempt + 1

\* setup_gpt returned "SUCCESS" on the first attempt after the dialog wait timed out
C21_Witness ==
  /\ pc = "done" /\ result = "SUCCESS" /\ attempt = 0
  /\ obs.saveClicks = 1 /\ obs.dialog = "timeout"

\* C22: whenever load_cookies has run, initialize_browser has returned
\* without an exception and the manager holds a browser, a context and a
\* page; and load_cookies returned False when the cookie file was missing,
\* unreadable, not JSON or rejected by the context
C22_BadCookieFileTolerated ==
  obs.cookies.file # "none" =>
    /\ pc = "login_goto" /\ exc = "none" /\ obs.init = "ok"
    /\ mgr[attempt].browser /\ mgr[attempt].context /\ mgr[attempt].page
    /\ obs.cookies.file # "valid" => ~obs.cookies.value

\* initialize_browser returned although the cookie file is not JSON
C22_Witness ==
  /\ pc = "login_goto" /\ obs.cookies.file = "invalid" /\ ~obs.cookies.value
  /\ mgr[attempt].browser /\ mgr[attempt].context /\ mgr[attempt].page

\* C23: is_browser_alive is never left waiting for the evaluate: whenever the
\* call has issued page.evaluate, its next step (return True, or return
\* False) can be taken, also when the evaluation never completes
C23_HealthCheckNeverBlocks ==
  pc = "alive_awaiting" => ENABLED is_browser_alive_result

\* C24: once an ensure_browser_alive of the attempt has raised, control is in
\* an exception handler, on the login-failure exit or in teardown: it is
\* never again at a step that waits for a selector, clicks, presses or fills
C24_NoPageOperationAfterCrash ==
  obs.crashRaised # 0 =>
    pc \in {"except", "login_failed", "finally", "for", "done"}

\* C25: in the share flow the dialog's Save button is clicked only after the
\* "Only me" button was clicked in the same flow
C25_OnlyMeBeforeShareSave ==
  obs.shareSaveClicks >= 1 => obs.onlyMeClicks >= 1

\* C26: an attempt whose create_new_gpt returned False does not take the
\* "return SUCCESS" exit, and setup_gpt does not return "SUCCESS" for it
C26_CreateFailureFailsAttempt ==
  obs.createResult = "False" =>
    (obs.branch # "success" /\ after # "return_success" /\ result # "SUCCESS")

\* the step of the attempt control is in: 1 login, 2 locate, 3 fill (reaching
\* the editor and every field of create_new_gpt), 4 save, 5 confirm (the
\* dialog wait and its sub-flows); 0 before login, 6 once the attempt is left
PhaseOf(p) ==
  CASE p \in {"for", "load_config", "initialize_browser"} -> 0
    [] p \in {"login_goto", "login_ensure1", "login_button", "login_wait",
              "login_ensure2"} -> 1
    [] p \in {"check_ensure1", "check_goto", "check_ensure2", "check_containers"} -> 2
    [] p \in {"create_ensure1", "create_wait_edit", "navigate_goto", "navigate_ensure",
              "navigate_title", "create_ensure2", "configure_tab", "fill_name",
              "name_ensure", "fill_description", "desc_ensure", "desc_fallback",
              "fill_instructions", "instr_ensure", "instr_fallback",
              "starters_section", "starters_loop", "starters_clear",
              "starters_fallback", "load_schema", "actions_ensure",
              "actions_section", "schema_fill", "action_save", "actions_fallback",
              "fallback_open", "fallback_schema"} -> 3
    [] p \in {"save_ensure", "save_button"} -> 4
    [] p \in {"save_dialog", "share_only_me", "share_save", "final_view"} -> 5
    [] OTHER -> 6

\* a step of the attempt that leads back to an earlier step
StepBack == pc' # "for" /\ PhaseOf(pc') < PhaseOf(pc)

\* the attempt observed has reached step k or is over
Reached(k) == PhaseOf(pc) >= k \/ pc = "for"

\* what has been done so far respects the order of the steps
StepsSoFarInOrder ==
  /\ PhaseOf(pc) \in 2 .. 5 => obs.login = "True"
  /\ "locate" \in obs.attempted => obs.login = "True"
  /\ obs.attempted \ {"locate"} # {} =>
       ("locate" \in obs.attempted /\ Reached(3))
  /\ "save" \in obs.attempted =>
       {"name", "description", "instructions", "starters"} \subseteq obs.attempted
  /\ obs.saveClicks >= 1 => ("save" \in obs.attempted /\ Reached(4))
  /\ (obs.dialog # "none" \/ obs.shareRuns + obs.finalRuns > 0) =>
       (obs.saveClicks >= 1 /\ Reached(5))

\* C27: within an attempt the steps come in the order login, locate, fill,
\* save, confirm: locate only after login returned True, no field step before
\* locate returned, save only after name, description, instructions and
\* starters were attempted, the dialog only after the save click, and no
\* step of the attempt ever leads back to an earlier one
C27_StepsInOrder == []StepsSoFarInOrder /\ [][~StepBack]_vars

\* all five steps of an attempt have been gone through
C27_Witness ==
  /\ pc = "return_success" /\ obs.login = "True"
  /\ {"locate", "name", "description", "instructions", "starters", "save"}
       \subseteq obs.attempted
  /\ obs.saveClicks = 1 /\ obs.shareRuns = 1 /\ obs.finalRuns = 1

\* positions whose next step looks an element up, clicks, presses or fills
PageOperationPcs ==
  {"login_button", "login_wait", "check_containers", "configure_tab", "fill_name",
   "fill_description", "desc_fallback", "fill_instructions", "instr_fallback",
   "starters_section", "starters_loop", "starters_clear", "starters_fallback",
   "actions_section", "schema_fill", "action_save", "actions_fallback",
   "fallback_open", "fallback_schema", "save_button", "save_dialog",
   "share_only_me", "share_save", "final_view"}

\* C28: no element is looked up, clicked or filled while a page.goto has been
\* issued and no ensure_browser_alive has returned since
C28_EnsureAfterEveryNavigation ==
  pc \in PageOperationPcs => ~obs.unchecked

\* the listing page was navigated to and checked, and its containers are
\* about to be queried
C28_Witness ==
  /\ pc = "check_containers" /\ ~obs.unchecked /\ "locate" \in obs.attempted

\* C29: in one attempt at most one click of the save control completes, and
\* the dialog wait, handle_share_gpt_dialog and handle_final_dialog run only
\* after such a click: with no save selector clicked there is no dialog handling
C29_DialogOnlyAfterOneSaveClick ==
  /\ obs.saveClicks <= 1
  /\ pc \in {"save_dialog", "share_only_me", "share_save", "final_view"} =>
       obs.saveClicks = 1
  /\ (obs.dialog # "none" \/ obs.shareRuns > 0 \/ obs.finalRuns > 0
        \/ obs.onlyMe > 0 \/ obs.shareSaveClicks > 0) => obs.saveClicks = 1

\* save_gpt returned after every save selector failed, without dialog handling
C29_Witness ==
  /\ pc = "return_success" /\ "save" \in obs.attempted /\ obs.crashRaised = 0
  /\ obs.saveClicks = 0 /\ obs.createResult = "True"
  /\ obs.dialog = "none" /\ obs.shareRuns = 0 /\ obs.finalRuns = 0

\* C30: when initialize_browser stopped after the launch because new_context
\* or new_page raised, the attempt goes straight to the handler and the
\* finally block: no navigation, login, locate, fill or save step runs; and
\* once close_browser has returned, a close was called on the browser, and on
\* the context if one had been created, and no manager holds a reference
C30_PartialSessionTornDown ==
  obs.init \in {"context_fail", "page_fail"} =>
    /\ pc \in {"except", "finally", "for", "done"}
    /\ obs.login = "none" /\ ~obs.unchecked /\ obs.attempted = {}
    /\ obs.saveClicks = 0 /\ obs.starterFills = 0
    /\ pc \in {"for", "done"} =>
         /\ obs.teardown.browserTried
         /\ obs.init = "page_fail" => obs.teardown.contextTried
         /\ \A k \in Attempts : ~Live(mgr[k]) /\ (mgr[k].created => mgr[k].closes = 1)

\* the first attempt's new_page raised, and its browser and context were closed
C30_Witness ==
  /\ pc = "for" /\ attempt = 1 /\ obs.init = "page_fail"
  /\ obs.teardown.contextTried /\ obs.teardown.browserTried
  /\ mgr[0].closes = 1 /\ ~Live(mgr[0]) /\ browsersLaunched = 1

\* C31: once the finally block of an attempt has run, every Playwright driver
\* initialize_browser started has been stopped: none is left running between
\* attempts or when setup_gpt returns
C31_DriverStoppedWithAttempt ==
  pc \in {"for", "done"} => playwright = 0

\* C32: within one call of setup_gpt the configuration document is loaded
\* once, whatever the number of attempts, and the value every attempt works
\* with is the one that load produced
C32_ConfigLoadedOnce ==
  /\ configLoads <= 1
  /\ (config_file.ok /\ configLoads >= 1) => config = config_file

\* C33: when save_cookies finds no context, or its context.cookies() call
\* raises, the cookie file holds what it held before the call: it is not
\* created, truncated or rewritten, at any point of the call or after it
C33_FailedSaveLeavesFile ==
  (~jar.context \/ jar.failed = "cookies") => jar.file = jar.prior

\* save_cookies has returned to close_browser after context.cookies() raised,
\* with cookies on file that differ from those the browser held
C33_Witness ==
  /\ pc = "close_block" /\ jar.context /\ jar.failed = "cookies"
  /\ jar.prior.kind = "json" /\ jar.prior.cookies # {}
  /\ jar.live # jar.prior.cookies
  /\ jar.file = jar.prior

====
